---- MODULE Spec2Model ----
(***************************************************************************)
(* MessageListWithoutContext (src/components/MessageList/MessageList.tsx): *)
(* the scroll controller, the notification manager and the pagination      *)
(* trigger of the chat message list, as a state machine.                   *)
(*                                                                         *)
(* The component runs on the UI event loop: every handler (lifecycle hook, *)
(* callback prop, timer callback) runs to completion, so each is one       *)
(* action.  Time is the event loop's clock in milliseconds; a timer set    *)
(* with setTimeout(f, d) fires when the clock reaches its due time, timers *)
(* with the same due time fire in the order they were set.                 *)
(***************************************************************************)
EXTENDS Integers, Sequences, FiniteSets

VARIABLES
    phase,                    \* "constructed" | "mounted" | "unmounted"
    props,                    \* this.props: messages, threadList, userID, messageLimit, loadMore
    newMessagesNotification,  \* this.state.newMessagesNotification
    notifications,            \* this.state.notifications
    notificationTimeouts,     \* this.notificationTimeouts (timer handles, never pruned)
    scrollOffset,             \* this.scrollOffset (number | undefined)
    closeToTop,               \* this.closeToTop (boolean | undefined)
    list,                     \* this.messageList.current: container element or Null
    bottom,                   \* this.bottomRef.current: bottom element or Null
    timers,                   \* the event loop's pending timers, in the order they were set
    now,                      \* the event loop's clock, ms
    scheduled,                \* history: every setTimeout call ever made
    fired,                    \* history: every timer callback that ran, in order
    uuidCount,                \* history: number of identifiers uuidv4 has produced
    calls,                    \* history: every addNotification invocation, with its arguments
    created,                  \* history: every notification created, with the time
    updates,                  \* history: number of props updates
    events,                   \* history: number of UI events handled
    scrollLog,                \* history: every scroll-to-bottom invocation and scrollDown run
    loaderCalls,              \* history: every invocation of props.loadMore, with its arguments
    last                      \* history: the handler that ran last, its inputs and what it did

vars == <<phase, props, newMessagesNotification, notifications, notificationTimeouts,
          scrollOffset, closeToTop, list, bottom, timers, now, scheduled, fired,
          uuidCount, calls, created, updates, events, scrollLog, loaderCalls, last>>

(***************************************************************************)
(* Bounds of the model.                                                    *)
(***************************************************************************)
MaxCalls == 3      \* addNotification invocations
MaxOps == 3        \* props updates and UI events (scroll tracking, clicks, loads)

(***************************************************************************)
(* Program constants.                                                      *)
(***************************************************************************)
NotificationDelay == 5000
ScrollDelay == 200
ScrolledUpThreshold == 200

(***************************************************************************)
(* JavaScript values.                                                      *)
(***************************************************************************)
Undefined == [type |-> "undefined"]
Null == [type |-> "null"]
Num(n) == [type |-> "number", v |-> n]
Str(s) == [type |-> "string", s |-> s]
Bool(b) == [type |-> "boolean", v |-> b]
TypeOf(x) == x.type

\* !!x for a boolean-or-undefined x
Truthy(x) == TypeOf(x) = "boolean" /\ x.v

\* x || 0 for a number-or-undefined x
OrZero(x) == IF TypeOf(x) = "number" /\ x.v # 0 THEN x.v ELSE 0

Min(S) == CHOOSE x \in S : \A y \in S : x <= y
Max(S) == CHOOSE x \in S : \A y \in S : y <= x

Range(s) == {s[i] : i \in 1..Len(s)}

RECURSIVE SelectSeqBy(_, _, _)
\* Array.prototype.filter with the test n.id !== id: the elements of s from
\* index i on whose identifier is not id, in order
SelectSeqBy(s, id, i) ==
    IF i > Len(s) THEN <<>>
    ELSE IF s[i].id # id THEN <<s[i]>> \o SelectSeqBy(s, id, i + 1)
    ELSE SelectSeqBy(s, id, i + 1)

(***************************************************************************)
(* The event loop's timers (setTimeout / clearTimeout).                    *)
(***************************************************************************)
\* the handle setTimeout returns next
NextHandle == Len(scheduled) + 1

\* setTimeout(callback, delay): kind and id say which callback it is
Timer(kind, id, delay) ==
    [handle |-> NextHandle, kind |-> kind, id |-> id, setAt |-> now, due |-> now + delay]

RECURSIVE WithoutHandles(_, _)
\* the pending timers left after clearTimeout(h) for every handle h in hs
WithoutHandles(ts, hs) ==
    IF ts = <<>> THEN <<>>
    ELSE IF Head(ts).handle \in hs THEN WithoutHandles(Tail(ts), hs)
    ELSE <<Head(ts)>> \o WithoutHandles(Tail(ts), hs)

\* index of the timer that fires next: the first one set among those due
DueIndex ==
    IF \E i \in 1..Len(timers) : timers[i].due <= now
    THEN Min({i \in 1..Len(timers) : timers[i].due <= now})
    ELSE 0

RemoveAt(s, i) == SubSeq(s, 1, i - 1) \o SubSeq(s, i + 1, Len(s))

(***************************************************************************)
(* Scroll primitives.                                                      *)
(***************************************************************************)
Element(offsetTop) == [type |-> "element", offsetTop |-> offsetTop]

\* offsetHeight is the height of the border box, clientHeight that of the
\* padding box: they differ by the borders (and a horizontal scrollbar)
Container(scrollTop, scrollHeight, offsetHeight, clientHeight) ==
    [type |-> "element", scrollTop |-> scrollTop, scrollHeight |-> scrollHeight,
     offsetHeight |-> offsetHeight, clientHeight |-> clientHeight]

\* scrollToTarget: the scrollTop value the target resolves to, or Undefined
ResolveTarget(target, containerEl) ==
    IF TypeOf(target) = "element" THEN Num(target.offsetTop)
    ELSE IF TypeOf(target) = "number" THEN target
    ELSE IF target = Str("top") THEN Num(0)
    ELSE IF target = Str("bottom")
    THEN Num(containerEl.scrollHeight - containerEl.offsetHeight)
    ELSE Undefined

\* scrollToTarget(target, containerEl): the container afterwards
ScrollToTarget(target, containerEl) ==
    LET scrollTop == ResolveTarget(target, containerEl)
    IN  IF scrollTop # Undefined
        THEN [containerEl EXCEPT !.scrollTop = scrollTop.v]
        ELSE containerEl

\* does scrollDown (the closure of _scrollToRef) write the scroll position?
ScrollDownWrites(el, parent) == el # Null /\ parent # Null

\* variant: scrollDown leaves the container where it is
ScrollDownNowhere(el, parent) == parent

\* scrollDown(): the container afterwards
ScrollDown(el, parent) ==
    IF ScrollDownWrites(el, parent) THEN ScrollToTarget(el, parent) ELSE parent

\* variant: an offset of exactly the threshold counts as scrolled up
UserScrolledUpAtThreshold(offset) == OrZero(offset) >= ScrolledUpThreshold

\* userScrolledUp()
UserScrolledUp(offset) == OrZero(offset) > ScrolledUpThreshold

(***************************************************************************)
(* Inputs.                                                                 *)
(***************************************************************************)
\* arguments addNotification is called with
Texts == {Str("saved"), Num(123)}
Types == {Str("success"), Str("error"), Str("warning")}

\* container scrollHeight values the layout produces
Heights == {1000, 2000}
\* container offsetHeight values (the viewport)
ViewHeights == {400}

\* messages: [id, user], user the author's id or "undefined" when absent
Msg(id, user) == [id |-> id, user |-> user]
InitialMessages == <<Msg("m1", "other")>>
Arrivals == {Msg("m2", "me"), Msg("m3", "other"), Msg("m4", "undefined")}
Older == {Msg("m0", "other")}

\* [loadMore, messageLimit, threadList, userID] of the props: the loader and
\* the limit vary where the pagination trigger is exercised, the view and the
\* connected user where the scroll controller is; the notification manager
\* reads no props
Config(lm, ml, tl, u) ==
    [loadMore |-> lm, messageLimit |-> ml, threadList |-> tl, userID |-> u]
PaginationConfigs ==
    {Config(lm, ml, tl, "me") :
        lm \in BOOLEAN, ml \in {Undefined, Num(0), Num(25)}, tl \in BOOLEAN}
ScrollConfigs ==
    {Config(TRUE, Undefined, FALSE, "me"), Config(TRUE, Undefined, TRUE, "me"),
     Config(TRUE, Undefined, FALSE, "undefined")}
NotificationConfigs == {Config(TRUE, Undefined, FALSE, "me")}

(***************************************************************************)
(* Construction.                                                           *)
(***************************************************************************)
NoScroll == [invocations |-> 0, deferred |-> 0]

Constructed(Configs) ==
    /\ phase = "constructed"
    /\ \E c \in Configs :
          props = [messages |-> InitialMessages, loadMore |-> c.loadMore,
                   messageLimit |-> c.messageLimit, threadList |-> c.threadList,
                   userID |-> c.userID]
    /\ newMessagesNotification = FALSE
    /\ notifications = <<>>
    /\ notificationTimeouts = <<>>
    /\ scrollOffset = Undefined
    /\ closeToTop = Undefined
    /\ list = Null
    /\ bottom = Null
    /\ timers = <<>>
    /\ now = 0
    /\ scheduled = <<>>
    /\ fired = <<>>
    /\ uuidCount = 0
    /\ calls = <<>>
    /\ created = <<>>
    /\ updates = 0
    /\ events = 0
    /\ scrollLog = NoScroll
    /\ loaderCalls = <<>>
    /\ last = [op |-> "constructor"]

InitNotifications == Constructed(NotificationConfigs)
InitScroll == Constructed(ScrollConfigs)
InitPagination == Constructed(PaginationConfigs)

(***************************************************************************)
(* scrollToBottom / _scrollToRef.                                          *)
(***************************************************************************)
\* variant: the second scrollDown is queued without a delay
ScrollTimersWithoutDelay(ts) == Append(ts, Timer("scroll", 0, 0))

\* the pending timers after _scrollToRef's setTimeout(scrollDown, 200)
ScrollTimers(ts) == Append(ts, Timer("scroll", 0, ScrollDelay))

\* a handler that invokes scrollToBottom (or not) on the container l it has
\* otherwise produced: scrollDown runs at once and is set to run again
ScrollToBottom(invoke, el, l) ==
    /\ list' = IF invoke THEN ScrollDown(el, l) ELSE l
    /\ timers' = IF invoke THEN ScrollTimers(timers) ELSE timers
    /\ scheduled' = IF invoke THEN ScrollTimers(scheduled) ELSE scheduled
    /\ scrollLog' = IF invoke
                    THEN [scrollLog EXCEPT !.invocations = @ + 1]
                    ELSE scrollLog

(***************************************************************************)
(* Lifecycle.                                                              *)
(***************************************************************************)
\* componentDidMount: the refs are attached, then scrollToBottom runs.  The
\* setState({messageListRect}) that follows touches no modelled state, and the
\* componentDidUpdate it causes sees equal props and no snapshot: no effect.
ComponentDidMount ==
    /\ phase = "constructed"
    /\ \E h \in {Min(Heights)}, v \in ViewHeights :
          /\ bottom' = Element(h)
          /\ ScrollToBottom(TRUE, Element(h), Container(0, h, v, v))
    /\ phase' = "mounted"
    /\ last' = [op |-> "componentDidMount"]
    /\ UNCHANGED <<props, newMessagesNotification, notifications, notificationTimeouts,
                   scrollOffset, closeToTop, now, fired, uuidCount, calls, created, updates, events,
                   loaderCalls>>

\* variant: only the first recorded handle is cleared
ClearFirstNotificationTimeout(ts, handles) ==
    IF handles = <<>> THEN ts ELSE WithoutHandles(ts, {Head(handles)})

\* variant: teardown clears every pending timer
ClearEveryTimeout(ts, handles) == <<>>

\* the pending timers after notificationTimeouts.forEach(clearTimeout)
ClearNotificationTimeouts(ts, handles) == WithoutHandles(ts, Range(handles))

\* componentWillUnmount; React then detaches the refs
ComponentWillUnmount ==
    /\ phase = "mounted"
    /\ timers' = ClearNotificationTimeouts(timers, notificationTimeouts)
    /\ phase' = "unmounted"
    /\ list' = Null
    /\ bottom' = Null
    /\ last' = [op |-> "componentWillUnmount"]
    /\ UNCHANGED <<props, newMessagesNotification, notifications, notificationTimeouts,
                   scrollOffset, closeToTop, now, scheduled, fired, uuidCount, calls, created,
                   updates, events, scrollLog, loaderCalls>>

(***************************************************************************)
(* Notification manager.                                                   *)
(***************************************************************************)
\* variant: the guard on the kind is missing
ValidArgumentsAnyKind(notificationText, type) ==
    ~(TypeOf(notificationText) # "string")

\* variant: the guard on the text is missing
ValidArgumentsAnyText(notificationText, type) ==
    ~(type # Str("success") /\ type # Str("error"))

\* the two guards of addNotification: does the call pass them?
ValidArguments(notificationText, type) ==
    /\ ~(TypeOf(notificationText) # "string")
    /\ ~(type # Str("success") /\ type # Str("error"))

\* uuidv4(): an identifier never produced before
uuidv4 == uuidCount + 1

\* variant: the new entry is put first
WithNotificationFirst(ns, n) == <<n>> \o ns

\* [...notifications, {id, text, type}]
WithNotification(ns, n) == Append(ns, n)

\* notifications.filter((n) => n.id !== id)
WithoutNotification(ns, id) == SelectSeqBy(ns, id, 1)

\* variant: one shared delay, restarted by every new notification
NotificationTimersRestarted(ts, id) ==
    Append([i \in 1..Len(ts) |->
               IF ts[i].kind = "notification" /\ ts[i].due > now
               THEN [ts[i] EXCEPT !.due = now + NotificationDelay]
               ELSE ts[i]],
           Timer("notification", id, NotificationDelay))

\* the pending timers after addNotification's setTimeout(remove id, 5000)
NotificationTimers(ts, id) == Append(ts, Timer("notification", id, NotificationDelay))

\* this.notificationTimeouts.push(ct)
WithTimeout(handles, ct) == Append(handles, ct)

\* addNotification(notificationText, type).  The message components that are
\* handed this callback are mounted and unmounted with the list, so it runs
\* while the list is mounted.
AddNotification(notificationText, type) ==
    /\ phase = "mounted"
    /\ Len(calls) < MaxCalls
    /\ calls' = Append(calls, [text |-> notificationText, type |-> type, threw |-> FALSE])
    /\ last' = [op |-> "addNotification"]
    /\ IF ValidArguments(notificationText, type)
       THEN LET id == uuidv4
            IN  /\ uuidCount' = uuidCount + 1
                /\ created' = Append(created, [id |-> id, at |-> now])
                /\ notifications' =
                      WithNotification(notifications,
                                       [id |-> id, text |-> notificationText, type |-> type])
                /\ timers' = NotificationTimers(timers, id)
                /\ scheduled' = NotificationTimers(scheduled, id)
                /\ notificationTimeouts' = WithTimeout(notificationTimeouts, NextHandle)
       ELSE UNCHANGED <<uuidCount, created, notifications, timers, scheduled,
                        notificationTimeouts>>
    /\ UNCHANGED <<phase, props, newMessagesNotification, scrollOffset, closeToTop, list,
                   bottom, now, fired, updates, events, scrollLog, loaderCalls>>

(***************************************************************************)
(* Timer callbacks and the clock.                                          *)
(***************************************************************************)
\* the callback of the notification timer for id runs: setState filters id out
NotificationTimeout ==
    /\ DueIndex # 0
    /\ timers[DueIndex].kind = "notification"
    /\ LET t == timers[DueIndex]
       IN  /\ notifications' = WithoutNotification(notifications, t.id)
           /\ fired' = Append(fired, [handle |-> t.handle, kind |-> t.kind, id |-> t.id,
                                      at |-> now, phase |-> phase])
           /\ last' = [op |-> "notificationTimeout", id |-> t.id]
    /\ timers' = RemoveAt(timers, DueIndex)
    /\ UNCHANGED <<phase, props, newMessagesNotification, notificationTimeouts,
                   scrollOffset, closeToTop, list, bottom, now, scheduled, uuidCount,
                   calls, created, updates, events, scrollLog, loaderCalls>>

\* the deferred scrollDown of _scrollToRef runs
ScrollTimeout ==
    /\ DueIndex # 0
    /\ timers[DueIndex].kind = "scroll"
    /\ LET t == timers[DueIndex]
       IN  /\ list' = ScrollDown(bottom, list)
           /\ fired' = Append(fired, [handle |-> t.handle, kind |-> t.kind, id |-> t.id,
                                      at |-> now, phase |-> phase])
           /\ last' = [op |-> "scrollTimeout",
                       wrote |-> ScrollDownWrites(bottom, list)]
    /\ timers' = RemoveAt(timers, DueIndex)
    /\ scrollLog' = [scrollLog EXCEPT !.deferred = @ + 1]
    /\ UNCHANGED <<phase, props, newMessagesNotification, notifications,
                   notificationTimeouts, scrollOffset, closeToTop, bottom, now, scheduled,
                   uuidCount, calls, created, updates, events, loaderCalls>>

\* the deadlines ahead: due times of every timer ever set, cleared ones included
Deadlines == {scheduled[i].due : i \in 1..Len(scheduled)}

\* the clock advances to the next deadline; it never passes a pending timer
\* without running its callback
Tick ==
    /\ DueIndex = 0
    /\ \E d \in Deadlines : d > now
    /\ now' = Min({d \in Deadlines : d > now})
    /\ UNCHANGED <<phase, props, newMessagesNotification, notifications,
                   notificationTimeouts, scrollOffset, closeToTop, list, bottom, timers,
                   scheduled, fired, uuidCount, calls, created, updates, events, scrollLog, loaderCalls, last>>

(***************************************************************************)
(* Scroll controller: the update cycle.                                    *)
(***************************************************************************)
\* variant: an empty list yields a placeholder message instead of undefined
LastMessageOrPlaceholder(messages) ==
    IF Len(messages) = 0 THEN Msg("", "undefined") ELSE messages[Len(messages)]

\* messages[messages.length - 1]
LastMessage(messages) ==
    IF Len(messages) = 0 THEN Undefined ELSE messages[Len(messages)]

\* variant: a snapshot is taken whenever the message count changes
GetSnapshotBeforeUpdateOnChange(prevProps, curProps, l) ==
    IF curProps.threadList THEN Null
    ELSE IF Len(prevProps.messages) # Len(curProps.messages) /\ l # Null
    THEN [offsetBottom |-> l.scrollHeight - l.scrollTop, offsetTop |-> l.scrollTop]
    ELSE Null

\* variant: the thread view is not excluded
GetSnapshotBeforeUpdateAnyView(prevProps, curProps, l) ==
    IF Len(prevProps.messages) < Len(curProps.messages) /\ l # Null
    THEN [offsetBottom |-> l.scrollHeight - l.scrollTop, offsetTop |-> l.scrollTop]
    ELSE Null

\* getSnapshotBeforeUpdate(prevProps), with the container l before the DOM changes
GetSnapshotBeforeUpdate(prevProps, curProps, l) ==
    IF curProps.threadList THEN Null
    ELSE IF Len(prevProps.messages) < Len(curProps.messages)
    THEN IF l # Null
         THEN [offsetBottom |-> l.scrollHeight - l.scrollTop, offsetTop |-> l.scrollTop]
         ELSE Null
    ELSE Null

\* currentLastMessage.id !== previousLastMessage.id
HasNewMessage(currentLastMessage, previousLastMessage) ==
    currentLastMessage.id # previousLastMessage.id

\* variant: a message without an author is nobody's own
IsOwnerOfAuthored(currentLastMessage, userID) ==
    currentLastMessage.user # "undefined" /\ currentLastMessage.user = userID

\* currentLastMessage?.user?.id === this.props.client.userID
IsOwner(currentLastMessage, userID) == currentLastMessage.user = userID

\* variant: only the author's own messages scroll down
ShouldScrollToBottomForOwner(hasNewMessage, isOwner, userScrolledUp) ==
    hasNewMessage /\ isOwner

\* variant: the author of the message is not considered
ShouldScrollToBottomUnlessScrolledUp(hasNewMessage, isOwner, userScrolledUp) ==
    hasNewMessage /\ ~userScrolledUp

\* const scrollToBottom = hasNewMessage && (isOwner || !userScrolledUp)
ShouldScrollToBottom(hasNewMessage, isOwner, userScrolledUp) ==
    hasNewMessage /\ (isOwner \/ ~userScrolledUp)

\* variant: the offset from the bottom is restored when a message arrives too
SnapshotTargetBottom(hasNewMessage, snapshot, l) ==
    Num((IF l # Null /\ l.scrollHeight # 0 THEN l.scrollHeight ELSE 0)
        - snapshot.offsetBottom)

\* variant: the absolute offset is restored in the pagination case too
SnapshotTargetTop(hasNewMessage, snapshot, l) == Num(snapshot.offsetTop)

\* the target the snapshot branch of componentDidUpdate scrolls to
SnapshotTarget(hasNewMessage, snapshot, l) ==
    IF hasNewMessage
    THEN Num(snapshot.offsetTop)
    ELSE Num((IF l # Null /\ l.scrollHeight # 0 THEN l.scrollHeight ELSE 0)
             - snapshot.offsetBottom)

\* the container after the snapshot branch of componentDidUpdate
RestoreScroll(hasNewMessage, snapshot, l) ==
    IF snapshot # Null /\ l # Null
    THEN ScrollToTarget(SnapshotTarget(hasNewMessage, snapshot, l), l)
    ELSE l

\* variant: the flag is never raised
FlagAfterUpdateKept(hasNewMessage, flag) == flag

\* the new-messages flag after the last statement of componentDidUpdate
FlagAfterUpdate(hasNewMessage, flag) ==
    IF hasNewMessage /\ ~flag THEN TRUE ELSE flag

\* componentDidUpdate(prevProps, _, snapshot), with the container l after the
\* DOM has changed
ComponentDidUpdate(prevProps, snapshot, l) ==
    LET userScrolledUp == UserScrolledUp(scrollOffset)
        currentLastMessage == LastMessage(props'.messages)
        previousLastMessage == LastMessage(prevProps.messages)
    IN  IF previousLastMessage = Undefined \/ currentLastMessage = Undefined
        THEN /\ ScrollToBottom(FALSE, bottom', l)
             /\ UNCHANGED newMessagesNotification
        ELSE LET hasNewMessage == HasNewMessage(currentLastMessage, previousLastMessage)
                 isOwner == IsOwner(currentLastMessage, props'.userID)
             IN  IF ShouldScrollToBottom(hasNewMessage, isOwner, userScrolledUp)
                 THEN /\ ScrollToBottom(TRUE, bottom', l)
                      /\ newMessagesNotification' = FALSE
                 ELSE /\ ScrollToBottom(FALSE, bottom', RestoreScroll(hasNewMessage, snapshot, l))
                      /\ newMessagesNotification' =
                            FlagAfterUpdate(hasNewMessage, newMessagesNotification)

\* the message lists the chat context may pass next: a message arrives, older
\* messages are prepended (pagination), or the last message is removed
NextMessages(messages) ==
    {Append(messages, m) : m \in {a \in Arrivals : a \notin Range(messages)}}
    \cup {<<m>> \o messages : m \in {o \in Older : o \notin Range(messages)}}
    \cup (IF messages = <<>> THEN {} ELSE {SubSeq(messages, 1, Len(messages) - 1)})

\* one update cycle: new props arrive, the snapshot is taken, the DOM changes
\* (content height h, the bottom element at its end), componentDidUpdate runs
Update(messages, h) ==
    /\ phase = "mounted"
    /\ updates + events < MaxOps
    /\ updates' = updates + 1
    /\ props' = [props EXCEPT !.messages = messages]
    /\ bottom' = Element(h)
    /\ LET snapshot == GetSnapshotBeforeUpdate(props, props', list)
           l == [list EXCEPT !.scrollHeight = h]
       IN  /\ ComponentDidUpdate(props, snapshot, l)
           /\ last' = [op |-> "componentDidUpdate",
                       prevMessages |-> props.messages, snapshot |-> snapshot,
                       flagBefore |-> newMessagesNotification,
                       scrollTopBefore |-> list.scrollTop,
                       scrollHeightBefore |-> list.scrollHeight,
                       scrolled |-> scrollLog'.invocations # scrollLog.invocations]
    /\ UNCHANGED <<phase, notifications, notificationTimeouts, scrollOffset, closeToTop,
                   now, fired, uuidCount, calls, created, events, loaderCalls>>

(***************************************************************************)
(* Scroll controller: UI events.                                           *)
(***************************************************************************)
\* values the scroll tracking callback is called with
Offsets == {200, 201}
ReverseOffsets == {0, 300}
Thresholds == {250, 300}

\* variant: listenToScroll never clears the flag
FlagAfterScrollKept(flag, offset) == flag

\* the new-messages flag after listenToScroll
FlagAfterScroll(flag, offset) ==
    IF flag /\ ~UserScrolledUp(offset) THEN FALSE ELSE flag

\* the user scrolls the container to reverseOffset from the top and the
\* scrollable region reports listenToScroll(offset, reverseOffset, threshold)
ListenToScroll(offset, reverseOffset, threshold) ==
    /\ phase = "mounted"
    /\ updates + events < MaxOps
    /\ events' = events + 1
    /\ list' = [list EXCEPT !.scrollTop = reverseOffset]
    /\ scrollOffset' = Num(offset)
    /\ closeToTop' = Bool(reverseOffset < threshold)
    /\ newMessagesNotification' = FlagAfterScroll(newMessagesNotification, scrollOffset')
    /\ last' = [op |-> "listenToScroll", offset |-> offset,
                reverseOffset |-> reverseOffset, threshold |-> threshold,
                flagBefore |-> newMessagesNotification]
    /\ UNCHANGED <<phase, props, notifications, notificationTimeouts, bottom, timers, now,
                   scheduled, fired, uuidCount, calls, created, updates, scrollLog, loaderCalls>>

\* goToNewMessages: the new-messages notification is clicked
GoToNewMessages ==
    /\ phase = "mounted"
    /\ updates + events < MaxOps
    /\ events' = events + 1
    /\ ScrollToBottom(TRUE, bottom, list)
    /\ newMessagesNotification' = FALSE
    /\ last' = [op |-> "goToNewMessages",
                flagBefore |-> newMessagesNotification]
    /\ UNCHANGED <<phase, props, notifications, notificationTimeouts, scrollOffset,
                   closeToTop, bottom, now, fired, uuidCount, calls, created, updates, loaderCalls>>

\* variant: being close to the top is not considered
ShouldScrollOnLoadNearTop(offset, nearTop) == ~UserScrolledUp(offset)

\* !this.userScrolledUp() && !this.closeToTop
ShouldScrollOnLoad(offset, nearTop) ==
    ~UserScrolledUp(offset) /\ ~Truthy(nearTop)

\* onMessageLoadCaptured: a load event was captured on a message
OnMessageLoadCaptured ==
    /\ phase = "mounted"
    /\ updates + events < MaxOps
    /\ events' = events + 1
    /\ ScrollToBottom(ShouldScrollOnLoad(scrollOffset, closeToTop), bottom, list)
    /\ last' = [op |-> "onMessageLoadCaptured",
                scrolled |-> scrollLog'.invocations # scrollLog.invocations]
    /\ UNCHANGED <<phase, props, newMessagesNotification, notifications,
                   notificationTimeouts, scrollOffset, closeToTop, bottom, now, fired,
                   uuidCount, calls, created, updates, loaderCalls>>

(***************************************************************************)
(* scrollToTarget as a method: it takes the container as an argument.       *)
(***************************************************************************)
\* border widths of the containers it is applied to
BorderWidths == {0, 1}

\* containers with scrollbars: the content, the view, the borders, the position
Containers ==
    {Container(t, h, v + 2 * b, v) :
        t \in ReverseOffsets, h \in Heights, v \in ViewHeights, b \in BorderWidths}

\* targets: elements, numbers, the two markers, and values that are none of
\* these (another string, undefined, null, a node that is no element)
Targets ==
    {Element(h) : h \in Heights}
    \cup {Num(0), Num(300), Str("top"), Str("bottom")}
    \cup {Str("middle"), Undefined, Null, [type |-> "text", offsetTop |-> 300]}

\* scrollToTarget(target, containerEl) is called
CallScrollToTarget(target, containerEl) ==
    /\ phase = "mounted"
    /\ updates + events < MaxOps
    /\ events' = events + 1
    /\ last' = [op |-> "scrollToTarget", target |-> target, containerEl |-> containerEl,
                scrollTop |-> ResolveTarget(target, containerEl),
                after |-> ScrollToTarget(target, containerEl)]
    /\ UNCHANGED <<phase, props, newMessagesNotification, notifications,
                   notificationTimeouts, scrollOffset, closeToTop, list, bottom, timers,
                   now, scheduled, fired, uuidCount, calls, created, updates, scrollLog,
                   loaderCalls>>

(***************************************************************************)
(* Pagination trigger.                                                     *)
(***************************************************************************)
\* variant: the limit is never passed on
LoaderInvocationsWithoutLimit(p) ==
    IF p.loadMore THEN << <<>> >> ELSE <<>>

\* the calls loadMore makes to props.loadMore: each entry is the argument list
LoaderInvocations(p) ==
    IF p.loadMore
    THEN IF TypeOf(p.messageLimit) = "number" /\ p.messageLimit.v # 0
         THEN << <<p.messageLimit>> >>
         ELSE << <<>> >>
    ELSE <<>>

LoadMore ==
    /\ phase = "mounted"
    /\ updates + events < MaxOps
    /\ events' = events + 1
    /\ loaderCalls' = loaderCalls \o LoaderInvocations(props)
    /\ last' = [op |-> "loadMore", before |-> Len(loaderCalls)]
    /\ UNCHANGED <<phase, props, newMessagesNotification, notifications,
                   notificationTimeouts, scrollOffset, closeToTop, list, bottom, timers,
                   now, scheduled, fired, uuidCount, calls, created, updates, scrollLog>>

\* the notification manager, with the lifecycle and the timers it depends on
NextNotifications ==
    \/ ComponentDidMount
    \/ \E text \in Texts, type \in Types : AddNotification(text, type)
    \/ NotificationTimeout
    \/ ScrollTimeout
    \/ Tick
    \/ ComponentWillUnmount

SpecNotifications == InitNotifications /\ [][NextNotifications]_vars

\* the pagination trigger, under every loader and limit the props may carry
NextPagination ==
    \/ ComponentDidMount
    \/ LoadMore
    \/ ScrollTimeout
    \/ Tick
    \/ ComponentWillUnmount

SpecPagination == InitPagination /\ [][NextPagination]_vars

\* the scroll controller, with the lifecycle and the timers it depends on
NextScroll ==
    \/ ComponentDidMount
    \/ \E messages \in NextMessages(props.messages), h \in Heights : Update(messages, h)
    \/ \E offset \in Offsets, reverseOffset \in ReverseOffsets, threshold \in Thresholds :
          ListenToScroll(offset, reverseOffset, threshold)
    \/ GoToNewMessages
    \/ OnMessageLoadCaptured
    \/ ScrollTimeout
    \/ Tick
    \/ ComponentWillUnmount

SpecScroll == InitScroll /\ [][NextScroll]_vars

\* the scroll controller together with the notification manager: the calls
\* of addNotification share the budget of the updates and UI events.  The
\* flag depends on neither the heights nor closeToTop: one value of each.
InitFlag == Constructed(NotificationConfigs)

WithinBudget == updates + events + Len(calls) < MaxOps

NextFlag ==
    \/ ComponentDidMount
    \/ \E messages \in NextMessages(props.messages), h \in {Min(Heights)} :
          WithinBudget /\ Update(messages, h)
    \/ \E offset \in Offsets, reverseOffset \in {Max(ReverseOffsets)},
          threshold \in {Min(Thresholds)} :
          WithinBudget /\ ListenToScroll(offset, reverseOffset, threshold)
    \/ WithinBudget /\ GoToNewMessages
    \/ WithinBudget /\ OnMessageLoadCaptured
    \/ \E text \in {Str("saved")}, type \in {Str("success")} :
          WithinBudget /\ AddNotification(text, type)
    \/ NotificationTimeout
    \/ ScrollTimeout
    \/ Tick
    \/ ComponentWillUnmount

SpecFlag == InitFlag /\ [][NextFlag]_vars

\* scrollToTarget applied to the targets and containers above
InitTarget == Constructed(NotificationConfigs)

NextTarget ==
    \/ ComponentDidMount
    \/ \E target \in Targets, containerEl \in Containers :
          CallScrollToTarget(target, containerEl)
    \/ ScrollTimeout
    \/ Tick
    \/ ComponentWillUnmount

SpecTarget == InitTarget /\ [][NextTarget]_vars

(***************************************************************************)
(* Properties of the notification manager.                                 *)
(***************************************************************************)
\* what the documentation calls valid arguments: a string text and a kind
\* that is 'success' or 'error'
IsValidCall(c) == c.text.type = "string" /\ c.type \in {Str("success"), Str("error")}
ValidCalls == {i \in 1..Len(calls) : IsValidCall(calls[i])}

IdsOf(ns) == [i \in 1..Len(ns) |-> ns[i].id]
Distinct(ids) == \A i, j \in 1..Len(ids) : ids[i] = ids[j] => i = j

\* the timer callbacks of kind k that have run
Fired(k) == {i \in 1..Len(fired) : fired[i].kind = k}
\* the setTimeout calls of kind k
Scheduled(k) == {i \in 1..Len(scheduled) : scheduled[i].kind = k}
\* the identifiers whose removal callback has run
Expired == {fired[i].id : i \in Fired("notification")}

\* C1: as long as no expiry timer has fired, the notification list is as long
\* as the number of addNotification calls with valid arguments, and its
\* entries have pairwise different identifiers.
C1_LengthIsValidCalls ==
    Fired("notification") = {} =>
        /\ Len(notifications) = Cardinality(ValidCalls)
        /\ Distinct(IdsOf(notifications))

\* valid and invalid calls were made, nothing has expired yet
C1_Witness ==
    /\ Fired("notification") = {}
    /\ Len(calls) = 3
    /\ Cardinality(ValidCalls) = 2
    /\ Len(notifications) = 2

RECURSIVE Surviving(_)
\* the identifiers created so far, in creation order, less the expired ones
Surviving(cs) ==
    IF cs = <<>> THEN <<>>
    ELSE IF Head(cs).id \in Expired THEN Surviving(Tail(cs))
    ELSE <<Head(cs).id>> \o Surviving(Tail(cs))

\* C2: in every reachable state the list holds no identifier twice, and it is
\* exactly the notifications created so far, in arrival order, without those
\* whose removal ran: an addition appends at the end, a removal takes out the
\* matching identifier only and keeps the order of the rest.
C2_ArrivalOrderWithoutExpired ==
    /\ Distinct(IdsOf(notifications))
    /\ IdsOf(notifications) = Surviving(created)
    /\ \A i \in 1..Len(notifications) :
          \E k \in ValidCalls :
              /\ notifications[i].text = calls[k].text
              /\ notifications[i].type = calls[k].type

\* an older notification has expired while two younger ones stay, in order
C2_Witness ==
    /\ Len(created) = 3
    /\ Expired = {created[1].id}
    /\ IdsOf(notifications) = <<created[2].id, created[3].id>>

\* the removal callbacks that ran for identifier id
RemovalsOf(id) == {i \in Fired("notification") : fired[i].id = id}
\* is the removal timer of identifier id pending?
RemovalPending(id) ==
    \E i \in 1..Len(timers) : timers[i].kind = "notification" /\ timers[i].id = id

\* C3: every notification created is removed at most once, and then exactly
\* 5000 ms after its own creation; until the component is torn down it is
\* listed with its removal pending up to that moment and never beyond it,
\* whatever other notifications were added or have expired meanwhile.
C3_RemovedOnceAfter5000 ==
    \A k \in 1..Len(created) :
        LET c == created[k]
        IN  /\ Cardinality(RemovalsOf(c.id)) <= 1
            /\ \A i \in RemovalsOf(c.id) :
                  /\ fired[i].at = c.at + 5000
                  /\ c.id \notin Range(IdsOf(notifications))
            /\ (RemovalsOf(c.id) = {} /\ phase # "unmounted") =>
                  /\ now <= c.at + 5000
                  /\ RemovalPending(c.id)
                  /\ c.id \in Range(IdsOf(notifications))

\* two notifications created at different times have both been removed, each
\* 5000 ms after its own creation, the second while the first was long gone
C3_Witness ==
    /\ Len(created) >= 2
    /\ created[1].at # created[2].at
    /\ RemovalsOf(created[1].id) # {}
    /\ RemovalsOf(created[2].id) # {}

\* C4: an addNotification call with a non-string text or an unknown kind
\* changes nothing: not the notification list, not the pending timers, not
\* the recorded timer handles, nor any other state, and it returns normally.
C4_InvalidCallIsNoOp ==
    [][(Len(calls') = Len(calls) + 1 /\ ~IsValidCall(calls'[Len(calls')])) =>
          /\ UNCHANGED <<notifications, timers, scheduled, notificationTimeouts,
                         newMessagesNotification, scrollOffset, closeToTop, list,
                         bottom, phase, props, uuidCount, created>>
          /\ ~calls'[Len(calls')].threw]_vars

\* an invalid call was made while a notification was listed with its timer pending
C4_Witness ==
    /\ last.op = "addNotification"
    /\ ~IsValidCall(calls[Len(calls)])
    /\ Len(notifications) = 1
    /\ Len(timers) >= 1
    /\ Len(notificationTimeouts) = 1

\* C5: after teardown no removal callback ever runs: teardown leaves no
\* removal timer pending, whatever number of notifications was scheduled
\* before, and the list is never updated again even when the 5000 ms elapse.
C5_NoRemovalAfterTeardown ==
    /\ \A i \in Fired("notification") : fired[i].phase # "unmounted"
    /\ phase = "unmounted" =>
          /\ \A i \in 1..Len(timers) : timers[i].kind # "notification"
          /\ \A k \in 1..Len(created) :
                RemovalsOf(created[k].id) = {} =>
                    created[k].id \in Range(IdsOf(notifications))

\* three notifications were scheduled, the component was torn down, and the
\* clock has passed the moment each of them was due
C5_Witness ==
    /\ phase = "unmounted"
    /\ Len(created) = 3
    /\ Len(notifications) = 3
    /\ \A k \in 1..Len(created) : now >= created[k].at + 5000

(***************************************************************************)
(* Properties of the update cycle.                                         *)
(***************************************************************************)
\* the state is the one componentDidUpdate left, for an update in which both
\* the previous and the current message list have a last message
UpdatedWithLastMessages ==
    /\ last.op = "componentDidUpdate"
    /\ last.prevMessages # <<>>
    /\ props.messages # <<>>
PreviousLast == last.prevMessages[Len(last.prevMessages)]
CurrentLast == props.messages[Len(props.messages)]
\* the recorded offset from the bottom exceeds 200 px
OffsetAbove200 == scrollOffset.type = "number" /\ scrollOffset.v > 200

\* C6: when the last message changes and the new last message is by the
\* connected user, scroll-to-bottom is invoked, whatever offset was recorded.
C6_OwnMessageScrollsToBottom ==
    (/\ UpdatedWithLastMessages
     /\ PreviousLast.id # CurrentLast.id
     /\ CurrentLast.user = props.userID) => last.scrolled

\* the user's own message arrived while the recorded offset was above 200 px
C6_Witness ==
    /\ UpdatedWithLastMessages
    /\ PreviousLast.id # CurrentLast.id
    /\ CurrentLast.user = "me"
    /\ props.userID = "me"
    /\ OffsetAbove200
    /\ last.scrolled

\* C7: when the last message changes, the new one is by somebody else and the
\* recorded offset exceeds 200 px, scroll-to-bottom is not invoked and the
\* new-messages flag is true afterwards.
C7_ForeignMessageRaisesFlag ==
    (/\ UpdatedWithLastMessages
     /\ PreviousLast.id # CurrentLast.id
     /\ CurrentLast.user # props.userID
     /\ OffsetAbove200) => (~last.scrolled /\ newMessagesNotification)

\* such an update raised the flag from false
C7_Witness ==
    /\ UpdatedWithLastMessages
    /\ PreviousLast.id # CurrentLast.id
    /\ CurrentLast.user # props.userID
    /\ OffsetAbove200
    /\ ~last.flagBefore
    /\ newMessagesNotification
    /\ ~last.scrolled

\* C8: on a pagination update (more messages, same last message, no thread
\* view) the scroll position becomes the new scrollHeight minus the distance
\* to the bottom measured before the update, and the flag keeps its value.
C8_PaginationKeepsBottomOffset ==
    (/\ UpdatedWithLastMessages
     /\ Len(last.prevMessages) < Len(props.messages)
     /\ PreviousLast.id = CurrentLast.id
     /\ ~props.threadList) =>
        /\ last.snapshot = [offsetBottom |-> last.scrollHeightBefore - last.scrollTopBefore,
                            offsetTop |-> last.scrollTopBefore]
        /\ list.scrollTop =
              list.scrollHeight - (last.scrollHeightBefore - last.scrollTopBefore)
        /\ newMessagesNotification = last.flagBefore
        /\ ~last.scrolled

\* older messages were prepended while the user was 700 px from the bottom of
\* 1000 px of content, which grew to 2000 px: the position moves to 1300
C8_Witness ==
    /\ UpdatedWithLastMessages
    /\ Len(last.prevMessages) < Len(props.messages)
    /\ PreviousLast.id = CurrentLast.id
    /\ last.snapshot = [offsetBottom |-> 700, offsetTop |-> 300]
    /\ list.scrollHeight = 2000
    /\ list.scrollTop = 1300

\* C11: when the last message changes and it is the user's own or the user is
\* not scrolled up, the update scrolls to the bottom and leaves the flag
\* false, and that is all: the position is the bottom element's, not the one
\* a snapshot would restore, also when a snapshot was taken.
C11_ScrollToBottomAndStop ==
    (/\ UpdatedWithLastMessages
     /\ PreviousLast.id # CurrentLast.id
     /\ (CurrentLast.user = props.userID \/ ~OffsetAbove200)) =>
        /\ last.scrolled
        /\ ~newMessagesNotification
        /\ list.scrollTop = bottom.offsetTop

\* the user's own message arrived while the flag was up and a snapshot had
\* been taken away from the bottom: the list is at the bottom, the flag down
C11_Witness ==
    /\ UpdatedWithLastMessages
    /\ PreviousLast.id # CurrentLast.id
    /\ CurrentLast.user = props.userID
    /\ OffsetAbove200
    /\ last.snapshot # Null
    /\ last.snapshot.offsetTop # bottom.offsetTop
    /\ last.flagBefore
    /\ last.scrolled
    /\ ~newMessagesNotification

\* C12: when somebody else's message arrives while the user is scrolled up
\* more than 200 px and a snapshot was taken, the scroll position afterwards
\* is the snapshot's offsetTop, the scrollTop before the update.
C12_ForeignMessageKeepsOffsetTop ==
    (/\ UpdatedWithLastMessages
     /\ PreviousLast.id # CurrentLast.id
     /\ CurrentLast.user # props.userID
     /\ OffsetAbove200
     /\ last.snapshot # Null) =>
        /\ last.snapshot.offsetTop = last.scrollTopBefore
        /\ list.scrollTop = last.snapshot.offsetTop

\* such an update in which the content grew, so that the new scrollHeight less
\* the old distance to the bottom would have been another position
C12_Witness ==
    /\ UpdatedWithLastMessages
    /\ PreviousLast.id # CurrentLast.id
    /\ CurrentLast.user # props.userID
    /\ OffsetAbove200
    /\ last.snapshot # Null
    /\ list.scrollTop = last.snapshot.offsetTop
    /\ list.scrollTop # list.scrollHeight - last.snapshot.offsetBottom

\* C13: an update whose previous or current message list is empty does nothing:
\* no scroll-to-bottom, the scroll position and the flag as before.
C13_EmptyListNoAction ==
    (/\ last.op = "componentDidUpdate"
     /\ (last.prevMessages = <<>> \/ props.messages = <<>>)) =>
        /\ ~last.scrolled
        /\ list.scrollTop = last.scrollTopBefore
        /\ newMessagesNotification = last.flagBefore

\* the user's own message is the first to arrive in an empty list, away from
\* the bottom, with a snapshot taken
C13_Witness ==
    /\ last.op = "componentDidUpdate"
    /\ last.prevMessages = <<>>
    /\ props.messages # <<>>
    /\ CurrentLast.user = "me"
    /\ props.userID = "me"
    /\ last.snapshot # Null
    /\ list.scrollTop # bottom.offsetTop
    /\ ~last.scrolled

\* C14: the snapshot of an update is {scrollHeight - scrollTop, scrollTop} of
\* the container before the update exactly when the message count grew and
\* the view is no thread view; otherwise it is null, and then the update
\* restores no position.
C14_SnapshotWhenCountGrew ==
    last.op = "componentDidUpdate" =>
        /\ last.snapshot =
              IF Len(last.prevMessages) < Len(props.messages) /\ ~props.threadList
              THEN [offsetBottom |-> last.scrollHeightBefore - last.scrollTopBefore,
                    offsetTop |-> last.scrollTopBefore]
              ELSE Null
        /\ (last.snapshot = Null /\ ~last.scrolled) =>
              list.scrollTop = last.scrollTopBefore

\* older messages were prepended in a thread view while the content grew: no
\* snapshot, and the position stays where it was
C14_Witness ==
    /\ UpdatedWithLastMessages
    /\ props.threadList
    /\ Len(last.prevMessages) < Len(props.messages)
    /\ PreviousLast.id = CurrentLast.id
    /\ last.scrollHeightBefore # list.scrollHeight
    /\ last.snapshot = Null
    /\ list.scrollTop = last.scrollTopBefore

\* a step of one of the UI event handlers
EventStep(op) == events' = events + 1 /\ last'.op = op

\* C15: listenToScroll records the offset and closeToTop = reverseOffset <
\* threshold, and clears the flag when it is up and the new offset is at most
\* 200, leaving it as it was otherwise; the user counts as scrolled up only
\* with a recorded offset above 200, so that somebody else's message scrolls
\* the list down at an offset of exactly 200 and at no recorded offset.
C15_ScrollTracking ==
    /\ last.op = "listenToScroll" =>
          /\ scrollOffset = Num(last.offset)
          /\ closeToTop = Bool(last.reverseOffset < last.threshold)
          /\ newMessagesNotification =
                IF last.flagBefore /\ last.offset <= 200 THEN FALSE ELSE last.flagBefore
    /\ (/\ UpdatedWithLastMessages
        /\ PreviousLast.id # CurrentLast.id
        /\ CurrentLast.user # props.userID) =>
          (last.scrolled <=> ~OffsetAbove200)

\* the flag was up and the user scrolled back to an offset of exactly 200
\* with reverseOffset equal to the threshold: flag cleared, not close to top
C15_Witness ==
    /\ last.op = "listenToScroll"
    /\ last.flagBefore
    /\ last.offset = 200
    /\ last.reverseOffset = last.threshold
    /\ scrollOffset = Num(200)
    /\ closeToTop = Bool(FALSE)
    /\ ~newMessagesNotification

\* C16: goToNewMessages scrolls to the bottom, at once and again 200 ms
\* later, and leaves the flag false whatever it was; it does not change the
\* recorded scroll offset, which only listenToScroll changes.
C16_GoToNewMessages ==
    [][/\ EventStep("goToNewMessages") =>
            /\ ~newMessagesNotification'
            /\ scrollOffset' = scrollOffset
            /\ list'.scrollTop = bottom'.offsetTop
            /\ scrollLog'.invocations = scrollLog.invocations + 1
            /\ Len(timers') = Len(timers) + 1
            /\ SubSeq(timers', 1, Len(timers)) = timers
            /\ timers'[Len(timers')].kind = "scroll"
            /\ timers'[Len(timers')].due = now + 200
       /\ scrollOffset' # scrollOffset => EventStep("listenToScroll")]_vars

\* the notification was clicked with the flag up, away from the bottom: the
\* flag is down, the list at the bottom, the recorded offset still above 200
C16_Witness ==
    /\ last.op = "goToNewMessages"
    /\ last.flagBefore
    /\ ~newMessagesNotification
    /\ OffsetAbove200
    /\ list.scrollTop = bottom.offsetTop
    /\ \E i \in 1..Len(timers) : timers[i].kind = "scroll" /\ timers[i].due = now + 200

\* C17: a captured load event scrolls to the bottom exactly when the user is
\* not scrolled up (offset at most 200 or none recorded) and closeToTop is
\* not set; otherwise the scroll position stays; the notification list and
\* the flag are unchanged either way.
C17_AssetLoad ==
    [][EventStep("onMessageLoadCaptured") =>
          /\ scrollLog'.invocations # scrollLog.invocations
                <=> (~OffsetAbove200 /\ closeToTop # Bool(TRUE))
          /\ list' = IF ~OffsetAbove200 /\ closeToTop # Bool(TRUE)
                     THEN [list EXCEPT !.scrollTop = bottom.offsetTop]
                     ELSE list
          /\ (OffsetAbove200 \/ closeToTop = Bool(TRUE)) => timers' = timers
          /\ notifications' = notifications
          /\ newMessagesNotification' = newMessagesNotification]_vars

\* a load event while the user is not scrolled up but close to the top: no
\* scroll, the list stays away from the bottom
C17_Witness ==
    /\ last.op = "onMessageLoadCaptured"
    /\ ~last.scrolled
    /\ ~OffsetAbove200
    /\ scrollOffset # Undefined
    /\ closeToTop = Bool(TRUE)
    /\ list.scrollTop # bottom.offsetTop

\* C18: scrollToTarget resolves an element to its offsetTop, a number to
\* itself (0 included), 'top' to 0 and 'bottom' to scrollHeight - clientHeight
\* and assigns that to the container's scrollTop; for any other target the
\* value is undefined and the scroll position stays.
C18_FourOutcomes ==
    last.op = "scrollToTarget" =>
        LET target == last.target
            containerEl == last.containerEl
            resolved ==
                IF target.type = "element" THEN Num(target.offsetTop)
                ELSE IF target.type = "number" THEN target
                ELSE IF target = Str("top") THEN Num(0)
                ELSE IF target = Str("bottom")
                THEN Num(containerEl.scrollHeight - containerEl.clientHeight)
                ELSE Undefined
        IN  /\ last.scrollTop = resolved
            /\ last.after = IF resolved = Undefined
                            THEN containerEl
                            ELSE [containerEl EXCEPT !.scrollTop = resolved.v]

\* C18, as the code has it: the same, with 'bottom' resolved to scrollHeight -
\* offsetHeight, which is scrollHeight - clientHeight less the borders.
C18_BottomLessOffsetHeight ==
    last.op = "scrollToTarget" =>
        LET target == last.target
            containerEl == last.containerEl
            resolved ==
                IF target.type = "element" THEN Num(target.offsetTop)
                ELSE IF target.type = "number" THEN target
                ELSE IF target = Str("top") THEN Num(0)
                ELSE IF target = Str("bottom")
                THEN Num(containerEl.scrollHeight - containerEl.offsetHeight)
                ELSE Undefined
        IN  /\ last.scrollTop = resolved
            /\ last.after = IF resolved = Undefined
                            THEN containerEl
                            ELSE [containerEl EXCEPT !.scrollTop = resolved.v]

\* 'bottom' in a container of 1000 px of content and a 400 px view with
\* borders of 1 px: the position becomes 598, two short of the bottom
C18_Witness ==
    /\ last.op = "scrollToTarget"
    /\ last.target = Str("bottom")
    /\ last.containerEl.scrollHeight = 1000
    /\ last.containerEl.clientHeight = 400
    /\ last.containerEl.offsetHeight = 402
    /\ last.after.scrollTop = 598

\* C20: in every reachable state, whatever updates, scroll callbacks, clicks,
\* load events and notification timers came before, the new-messages flag is
\* up only while the recorded scroll offset is above 200.
C20_FlagOnlyWhenScrolledUp ==
    newMessagesNotification => OffsetAbove200

\* the flag is up, at an offset above 200, after a notification was added and
\* its timer has removed it again
C20_Witness ==
    /\ newMessagesNotification
    /\ OffsetAbove200
    /\ Fired("notification") # {}
    /\ notifications = <<>>

\* C21: the new last message is the user's own when its author identifier
\* equals the client's user identifier, two absent identifiers being equal:
\* with both absent the update scrolls to the bottom also when the user is
\* scrolled up above 200; with exactly one absent it is not the user's own,
\* and when scrolled up above 200 the update raises the flag without scrolling.
C21_AbsentIdentifiersCompareEqual ==
    (UpdatedWithLastMessages /\ PreviousLast.id # CurrentLast.id) =>
        /\ (CurrentLast.user = "undefined" /\ props.userID = "undefined") =>
              /\ last.scrolled
              /\ ~newMessagesNotification
              /\ list.scrollTop = bottom.offsetTop
        /\ (/\ (CurrentLast.user = "undefined") # (props.userID = "undefined")
            /\ OffsetAbove200) =>
              /\ ~last.scrolled
              /\ newMessagesNotification
              /\ list.scrollTop = last.scrollTopBefore

\* a message without an author arrived at a client without a user identifier
\* while the user was scrolled up above 200: the list went to the bottom
C21_Witness ==
    /\ UpdatedWithLastMessages
    /\ PreviousLast.id # CurrentLast.id
    /\ CurrentLast.user = "undefined"
    /\ props.userID = "undefined"
    /\ OffsetAbove200
    /\ last.scrollTopBefore # bottom.offsetTop
    /\ last.scrolled
    /\ list.scrollTop = bottom.offsetTop

PendingScrolls(ts) == {i \in 1..Len(ts) : ts[i].kind = "scroll"}

\* a step in which a deferred scrollDown ran
ScrollTimeoutStep ==
    /\ Len(fired') = Len(fired) + 1
    /\ fired'[Len(fired')].kind = "scroll"

\* C19: the deferred scrollDown is never cancelled: a pending one stays
\* pending through every step, teardown included, until it runs at its due
\* time; when it runs it does not look at the recorded offset, writes the
\* scroll position exactly when container and bottom element both exist, and
\* changes neither the notification list nor the flag.
C19_DeferredScrollNeverCancelled ==
    [][/\ \A i \in PendingScrolls(timers) :
            \/ \E j \in PendingScrolls(timers') : timers'[j] = timers[i]
            \/ /\ ScrollTimeoutStep
               /\ fired'[Len(fired')].handle = timers[i].handle
               /\ now = timers[i].due
       /\ \A j \in PendingScrolls(timers') : now' <= timers'[j].due
       /\ ScrollTimeoutStep =>
            /\ list' = IF list # Null /\ bottom # Null
                       THEN [list EXCEPT !.scrollTop = bottom.offsetTop]
                       ELSE list
            /\ notifications' = notifications
            /\ newMessagesNotification' = newMessagesNotification]_vars

\* after scroll events and an update, one deferred scrollDown ran while the
\* component was mounted and a later one ran after teardown and wrote nothing
C19_Witness ==
    /\ last.op = "scrollTimeout"
    /\ ~last.wrote
    /\ phase = "unmounted"
    /\ list = Null
    /\ OffsetAbove200
    /\ updates > 0
    /\ \E j \in Fired("scroll") : fired[j].phase = "mounted"
    /\ \E j \in Fired("scroll") : fired[j].phase = "unmounted"
    /\ Cardinality(Fired("scroll")) = Len(scheduled)

(***************************************************************************)
(* Properties of the pagination trigger.                                   *)
(***************************************************************************)
\* the calls one loadMore makes if a limit counts as provided when provided(limit)
LoaderCallsIf(provided) ==
    IF ~props.loadMore THEN <<>>
    ELSE IF provided THEN << <<props.messageLimit>> >>
    ELSE << <<>> >>

\* C9 as stated: one loadMore calls the loader once, with the limit whenever
\* the props carry one, with no argument otherwise, and not at all when there
\* is no loader.
C9_LimitPassedWheneverProvided ==
    last.op = "loadMore" =>
        loaderCalls = SubSeq(loaderCalls, 1, last.before)
                          \o LoaderCallsIf(props.messageLimit # Undefined)

\* C9, amended: the limit is passed when the props carry a limit other than 0;
\* a limit of 0 is treated like no limit.  One loadMore makes at most that one
\* call and changes nothing else.
C9_NonZeroLimitPassed ==
    [][(events' = events + 1 /\ last'.op = "loadMore") =>
          /\ loaderCalls' =
                loaderCalls \o LoaderCallsIf(props.messageLimit # Undefined
                                             /\ props.messageLimit # Num(0))
          /\ UNCHANGED <<phase, props, newMessagesNotification, notifications,
                         notificationTimeouts, scrollOffset, closeToTop, list, bottom,
                         timers, scheduled>>]_vars

\* loadMore ran twice with a limit of 25: two calls, each with the limit
C9_Witness ==
    /\ last.op = "loadMore"
    /\ props.messageLimit = Num(25)
    /\ loaderCalls = << <<Num(25)>>, <<Num(25)>> >>

(***************************************************************************)
(* Properties of scroll-to-bottom.                                         *)
(***************************************************************************)
\* the handler that ran last invoked scroll-to-bottom
LastHandlerScrolled ==
    \/ last.op \in {"componentDidMount", "goToNewMessages"}
    \/ last.op \in {"componentDidUpdate", "onMessageLoadCaptured"} /\ last.scrolled

\* C10: mounting invokes scroll-to-bottom, and every invocation scrolls once at
\* once and sets exactly one timer, due 200 ms later, whose callback scrolls
\* once more: it runs once, at its due time, and is never dropped.
C10_ScrollNowAndAfter200 ==
    /\ phase # "constructed" =>
          /\ scrollLog.invocations >= 1
          /\ scheduled[1].kind = "scroll"
    /\ last.op = "componentDidMount" => scrollLog.invocations = 1
    /\ (LastHandlerScrolled /\ list # Null) => list.scrollTop = bottom.offsetTop
    /\ Cardinality(Scheduled("scroll")) = scrollLog.invocations
    /\ Cardinality(Fired("scroll")) = scrollLog.deferred
    /\ \A i \in Scheduled("scroll") :
          LET runs == {j \in Fired("scroll") : fired[j].handle = scheduled[i].handle}
              pending == {j \in 1..Len(timers) : timers[j].handle = scheduled[i].handle}
          IN  /\ scheduled[i].due = scheduled[i].setAt + 200
              /\ Cardinality(runs) + Cardinality(pending) = 1
              /\ \A j \in runs : fired[j].at = scheduled[i].due
              /\ pending # {} => now <= scheduled[i].due
    /\ (last.op = "scrollTimeout" /\ list # Null) =>
          (last.wrote /\ list.scrollTop = bottom.offsetTop)

\* the second scroll of the mount has run, 200 ms after the mount, after the
\* user had scrolled away in between
C10_Witness ==
    /\ phase = "mounted"
    /\ last.op = "scrollTimeout"
    /\ last.wrote
    /\ scrollOffset # Undefined
    /\ scrollLog.invocations = 1
    /\ \E j \in Fired("scroll") :
          /\ fired[j].handle = scheduled[1].handle
          /\ fired[j].at = scheduled[1].setAt + 200

====
